---- MODULE Spec2Model ----
(***************************************************************************)
(* The IOTA MetaMask snap: the JSON-RPC handler onRpcRequest               *)
(* (src/src/index.tsx) with its helpers (src/src/types.ts, the IOTA half,  *)
(* and the error classes of src/snap.config.ts).                           *)
(*                                                                         *)
(* onRpcRequest is an async function: every `await` is a point where the   *)
(* handler is suspended and another request may run.  One action of the    *)
(* model is one resumption: the awaited call returns (its result is the    *)
(* action's nondeterministic input) and the handler runs synchronously up  *)
(* to its next await, its return or its throw.                             *)
(*                                                                         *)
(* The host (snap_getBip32Entropy, snap_dialog, snap_manageState), the     *)
(* key-derivation library and the chain SDK (Transaction.build,            *)
(* dryRunTransactionBlock, keypair.sign*, client.signAndExecuteTransaction)*)
(* are the environment: their answers are drawn from small sets.           *)
(***************************************************************************)
EXTENDS Integers, Sequences, FiniteSets, TLC

VARIABLES
    stored,     \* the host's snap_manageState store: NoState or a SnapState
    seed,       \* the user's seed phrase, answered by snap_getBip32Entropy
    req,        \* per slot: one in-flight invocation of onRpcRequest
    started     \* number of onRpcRequest invocations so far

vars == <<stored, seed, req, started>>

----------------------------------------------------------------------------
(* Bounds *)

\* total number of onRpcRequest invocations in one behaviour
MaxRequests == 2
\* longest personal message, in code points
MaxMsgLen == 1
\* the byte strings Transaction.build can return for one transaction are
\* told apart by a version (the result depends on the fullnode: gas price,
\* object versions)
BuildVersions == {1, 2}

----------------------------------------------------------------------------
(* Values *)

UNDEFINED == "<undefined>"
NIL == "-"

\* slot "main" runs any request; slot "admin" runs a second, concurrent
\* admin request (the only requests that touch the store besides reads)
Slots == {"main", "admin"}

Origins == {"https://iotasnap.com", "http://localhost:8000", "https://dapp.example"}

KnownMethods ==
    {"signPersonalMessage", "getAccounts", "signTransaction",
     "signAndExecuteTransaction", "admin_getStoredState", "admin_setFullnodeUrl"}
\* with two names the switch does not know, one of them the empty string
Methods == KnownMethods \cup {"eth_sign", ""}
AdminMethods == {"admin_getStoredState", "admin_setFullnodeUrl"}

ValidChains == {"iota:mainnet", "iota:testnet", "iota:devnet", "iota:localnet"}
Chains == ValidChains \cup {"sui:mainnet"}

ValidNetworks == {"mainnet", "testnet", "devnet", "localnet"}
Networks == ValidNetworks \cup {"moonnet"}

GoodUrl == "https://node.example:443"
BadUrl == "not a url"
Urls == {GoodUrl, BadUrl}

Seeds == {"seedA", "seedB"}

\* code points of the personal message: 'A', LF, ESC, DEL (C1 side of Cc),
\* ZERO WIDTH SPACE and RIGHT-TO-LEFT OVERRIDE (Cf)
CodePoints == {65, 10, 27, 127, 8203, 8238}
RECURSIVE SeqsUpTo(_, _)
SeqsUpTo(S, n) ==
    IF n = 0 THEN {<<>>}
    ELSE LET shorter == SeqsUpTo(S, n - 1)
         IN shorter \cup {Append(s, c) : s \in {t \in shorter : Len(t) = n - 1}, c \in S}
Messages == SeqsUpTo(CodePoints, MaxMsgLen)

\* a requested transaction: only its sender field matters to the handler
Senders == {UNDEFINED, "0xrequester"}

NoGas == [present |-> FALSE, computationCost |-> 0, storageCost |-> 0, storageRebate |-> 0]
GasUsedValues ==
    {NoGas,
     [present |-> TRUE, computationCost |-> 0, storageCost |-> 0, storageRebate |-> 0],
     [present |-> TRUE, computationCost |-> 1000000, storageCost |-> 2000000, storageRebate |-> 1000000]}

\* answers of client.dryRunTransactionBlock
NoDryRun == [present |-> FALSE, status |-> NIL, error |-> UNDEFINED, gasUsed |-> NoGas]
DryRunResponses ==
    {[present |-> TRUE, status |-> "success", error |-> UNDEFINED, gasUsed |-> g] : g \in GasUsedValues}
    \cup {[present |-> TRUE, status |-> "failure", error |-> e, gasUsed |-> NoGas] :
            e \in {UNDEFINED, "InsufficientGas"}}

DialogAnswers == {"true", "false", "null"}

\* the store: `present` is FALSE while the host holds no state (get answers null)
NoState == [present |-> FALSE, mainnetUrl |-> UNDEFINED, testnetUrl |-> UNDEFINED,
            devnetUrl |-> UNDEFINED, localnetUrl |-> UNDEFINED]
\* the SnapState {}
EmptyState == [present |-> TRUE, mainnetUrl |-> UNDEFINED, testnetUrl |-> UNDEFINED,
               devnetUrl |-> UNDEFINED, localnetUrl |-> UNDEFINED]

EmptyBytes == [sender |-> NIL, ver |-> 0]

NoError == [name |-> "none", code |-> 0, message |-> <<>>]

----------------------------------------------------------------------------
(* Error classes *)

\* a bug of the rejection: the dry-run error is thrown in its place
UserRejectionErrorAsDryRun == [name |-> "simple", code |-> 4900, message |-> <<"Dry run failed">>]

\* UserRejectionError.asSimpleError()
UserRejectionError == [name |-> "simple", code |-> 4001, message |-> <<"User rejected the request">>]

\* InvalidParamsError.asSimpleError(message)
InvalidParamsError(message) == [name |-> "simple", code |-> -32602, message |-> message]

\* a bug of the error class: the code of InvalidParamsError
InvalidRequestMethodErrorParamsCode(method) ==
    [name |-> "simple", code |-> -32602,
     message |-> IF method # "" THEN <<"Method not found: ", method>>
                 ELSE <<"Method not found">>]

\* InvalidRequestMethodError.asSimpleError(method):
\* method ? `Method not found: ${method}` : 'Method not found'
InvalidRequestMethodError(method) ==
    [name |-> "simple", code |-> -32601,
     message |-> IF method # "" THEN <<"Method not found: ", method>>
                 ELSE <<"Method not found">>]

\* DryRunFailedError.asSimpleError(message): message ?? 'Dry run failed'
DryRunFailedError(message) ==
    [name |-> "simple", code |-> 4900,
     message |-> IF message = UNDEFINED THEN <<"Dry run failed">> ELSE <<message>>]

\* new Error(message)
PlainError(message) == [name |-> "Error", code |-> 0, message |-> message]

----------------------------------------------------------------------------
(* Helpers of util.ts *)

DEFAULT_MAINNET_URL == "getFullnodeUrl('mainnet')"
DEFAULT_TESTNET_URL == "getFullnodeUrl('testnet')"
DEFAULT_DEVNET_URL == "getFullnodeUrl('devnet')"
DEFAULT_LOCALNET_URL == "getFullnodeUrl('localnet')"

\* a bug of the origin gate: it lets every origin through
assertAdminOriginOpen(origin) == TRUE

\* a bug of the origin gate: `||` in place of `&&`, no origin passes
assertAdminOriginEither(origin) ==
    ~(origin # "https://iotasnap.com" \/ origin # "http://localhost:8000")

\* assertAdminOrigin: TRUE when it returns, FALSE when it throws
assertAdminOrigin(origin) ==
    ~(origin # "https://iotasnap.com" /\ origin # "http://localhost:8000")

\* getStoredState: (state as SnapState) ?? {}
getStoredState(hostState) ==
    IF hostState.present THEN hostState ELSE EmptyState

\* a ?? b
Coalesce(a, b) == IF a = UNDEFINED THEN b ELSE a

\* a bug of the endpoint switch: the testnet case reads the mainnet override
getFullnodeUrlForChainSwapped(state, chain) ==
    CASE chain = "iota:mainnet" -> Coalesce(state.mainnetUrl, DEFAULT_MAINNET_URL)
      [] chain = "iota:testnet" -> Coalesce(state.mainnetUrl, DEFAULT_TESTNET_URL)
      [] chain = "iota:devnet" -> Coalesce(state.devnetUrl, DEFAULT_DEVNET_URL)
      [] chain = "iota:localnet" -> Coalesce(state.localnetUrl, DEFAULT_LOCALNET_URL)
      [] OTHER -> UNDEFINED

\* getFullnodeUrlForChain, given the state its getStoredState call returned;
\* UNDEFINED stands for the throw of `Unsupported chain`
getFullnodeUrlForChain(state, chain) ==
    CASE chain = "iota:mainnet" -> Coalesce(state.mainnetUrl, DEFAULT_MAINNET_URL)
      [] chain = "iota:testnet" -> Coalesce(state.testnetUrl, DEFAULT_TESTNET_URL)
      [] chain = "iota:devnet" -> Coalesce(state.devnetUrl, DEFAULT_DEVNET_URL)
      [] chain = "iota:localnet" -> Coalesce(state.localnetUrl, DEFAULT_LOCALNET_URL)
      [] OTHER -> UNDEFINED

\* calcTotalGasFeesDec.  The result is the decimal string of nanos / 1e9;
\* it is represented by the integer nanos it prints (distinct totals print
\* distinct strings, and the literal '0' is the string of the total 0).
calcTotalGasFeesDec(dryRunRes) ==
    IF ~dryRunRes.present \/ ~dryRunRes.gasUsed.present
    THEN 0
    ELSE dryRunRes.gasUsed.computationCost + dryRunRes.gasUsed.storageCost
         - dryRunRes.gasUsed.storageRebate

\* the switch of admin_setFullnodeUrl on params.network
\* a bug of the switch: the testnet case writes the mainnet field
setNetworkUrlShifted(state, network, url) ==
    CASE network = "mainnet" -> [state EXCEPT !.mainnetUrl = url]
      [] network = "testnet" -> [state EXCEPT !.mainnetUrl = url]
      [] network = "devnet" -> [state EXCEPT !.devnetUrl = url]
      [] network = "localnet" -> [state EXCEPT !.localnetUrl = url]
      [] OTHER -> state

setNetworkUrl(state, network, url) ==
    CASE network = "mainnet" -> [state EXCEPT !.mainnetUrl = url]
      [] network = "testnet" -> [state EXCEPT !.testnetUrl = url]
      [] network = "devnet" -> [state EXCEPT !.devnetUrl = url]
      [] network = "localnet" -> [state EXCEPT !.localnetUrl = url]
      [] OTHER -> state

----------------------------------------------------------------------------
(* Helpers of types.ts *)

\* the schema functions: `params as T`, a cast that never throws.
\* TRUE when the schema accepts the params.
SchemaAccepts(method, params) == TRUE

\* validate(params, schema): UNDEFINED when there is no validationError
validate(method, params) ==
    IF SchemaAccepts(method, params) THEN UNDEFINED ELSE "Validation failed"

----------------------------------------------------------------------------
(* Helpers of index.tsx *)

\* /[\x00-\x09\x0E-\x1F]/u.test(decodedMessage)
controlRegexTest(decodedMessage) ==
    \E i \in 1..Len(decodedMessage) :
        \/ decodedMessage[i] \in 0..9
        \/ decodedMessage[i] \in 14..31

\* a bug of the approval test: only an explicit `false` rejects
isRejectedOnlyFalse(response) == response = "false"

\* `if (response !== true)` after the confirmation dialog
isRejected(response) == response # "true"

\* a bug of the approved path: the signTransaction case broadcasts as well
afterApprovalAlwaysExecute(method) == "execute"

\* what follows the approval: client.signAndExecuteTransaction in
\* signAndExecuteTransaction, the keypair's signature in the other two
afterApproval(method) ==
    IF method = "signAndExecuteTransaction" THEN "execute" ELSE "sign"

\* the message as the dialog of signPersonalMessage shows it, with its notice
messageDisplay(message) ==
    IF controlRegexTest(message)
    THEN [encoding |-> "base64", notice |-> "(base64 encoded)", data |-> message]
    ELSE [encoding |-> "text", notice |-> "", data |-> message]

\* `Estimated gas fees: **{calcTotalGasFeesDec(result.dryRunRes)} IOTA**`
gasFeeLine(dryRunRes) ==
    [text |-> "<amount> IOTA", amount |-> calcTotalGasFeesDec(dryRunRes)]

\* a bug of the alert: the error message is left out
dryRunResultTextBare(errorMessage) == <<"Dry run failed.">>

\* resultText of the dry-run failure alert
dryRunResultText(errorMessage) ==
    IF errorMessage # UNDEFINED /\ errorMessage # ""
    THEN <<"Dry run failed with the following error: **", errorMessage, "**">>
    ELSE <<"Dry run failed.">>

\* a bug of the account: the features of the Sui snap it was ported from
serializedWalletAccountForPublicKeySui(s) ==
    [address |-> IF s = "seedA" THEN "0xaddrA" ELSE "0xaddrB",
     publicKey |-> IF s = "seedA" THEN "pubA" ELSE "pubB",
     chains |-> <<"iota:mainnet", "iota:testnet", "iota:devnet", "iota:localnet">>,
     features |-> <<"sui:signAndExecuteTransactionBlock", "sui:signTransactionBlock",
                    "sui:signPersonalMessage", "sui:signMessage">>]

\* keypair.getPublicKey().toIotaAddress() of the key derived from the seed
toIotaAddress(s) == IF s = "seedA" THEN "0xaddrA" ELSE "0xaddrB"

\* serializedWalletAccountForPublicKey
serializedWalletAccountForPublicKey(s) ==
    [address |-> toIotaAddress(s),
     publicKey |-> IF s = "seedA" THEN "pubA" ELSE "pubB",
     chains |-> <<"iota:mainnet", "iota:testnet", "iota:devnet", "iota:localnet">>,
     features |-> <<"iota:signAndExecuteTransactionBlock", "iota:signTransactionBlock",
                    "iota:signPersonalMessage", "iota:signMessage">>]

----------------------------------------------------------------------------
(* One invocation of onRpcRequest *)

NoDialog ==
    [type |-> "none", heading |-> "", origin |-> NIL, chain |-> NIL,
     shown |-> [encoding |-> "", notice |-> "", data |-> <<>>],
     fee |-> [text |-> "", amount |-> 0], resultText |-> <<>>]

NoAccount == [address |-> NIL, publicKey |-> NIL, chains |-> <<>>, features |-> <<>>]

IdleReq ==
    [method |-> NIL, origin |-> NIL,
     \* request.params
     message |-> <<>>, chain |-> NIL, txSender |-> NIL, network |-> NIL, url |-> NIL,
     \* the pending await
     pc |-> "idle",
     \* locals of the handler
     keypair |-> NIL,          \* the seed the keypair was derived from
     clientUrl |-> NIL,        \* url of the IotaClient of signAndExecuteTransaction
     txb |-> NIL,              \* sender field of the Transaction handed to buildTransactionBlock
     buildState |-> NoState,   \* what getStoredState answered inside buildTransactionBlock
     buildUrl |-> NIL,         \* url resolved inside buildTransactionBlock
     isError |-> FALSE, hasBytes |-> FALSE, transactionBlockBytes |-> EmptyBytes,
     errorMessage |-> UNDEFINED, dryRunRes |-> NoDryRun,   \* result of buildTransactionBlock
     dialog |-> NoDialog,      \* content of the last snap_dialog
     state |-> NoState,        \* state of admin_setFullnodeUrl
     \* what the signer was given
     signedMessage |-> <<>>, signedBytes |-> EmptyBytes, executedBytes |-> EmptyBytes,
     \* outcome
     ret |-> "none", retState |-> NoState, retAccount |-> NoAccount, error |-> NoError,
     \* completed host and SDK calls, in order
     calls |-> <<>>]

Call(name, answer) == [call |-> name, answer |-> answer]

Throw(q, err) == [q EXCEPT !.pc = "done", !.error = err]

Return(q, kind) == [q EXCEPT !.pc = "done", !.ret = kind]

\* request.params as the method reads them
ParamsOf(q) ==
    [message |-> q.message, chain |-> q.chain, txSender |-> q.txSender,
     network |-> q.network, url |-> q.url]

\* the alert of a failed dry run, then the pending snap_dialog
ShowAlert(q) ==
    [q EXCEPT !.pc = "alert",
              !.dialog = [NoDialog EXCEPT !.type = "alert",
                                          !.heading = "Transaction failed.",
                                          !.origin = q.origin, !.chain = q.chain,
                                          !.resultText = dryRunResultText(q.errorMessage)]]

\* the confirmation of a transaction, then the pending snap_dialog
ShowTxConfirmation(q) ==
    [q EXCEPT !.pc = "confirm",
              !.dialog = [NoDialog EXCEPT !.type = "confirmation",
                                          !.heading = IF q.method = "signTransaction"
                                                      THEN "Sign a Transaction"
                                                      ELSE "Approve a Transaction",
                                          !.origin = q.origin, !.chain = q.chain,
                                          !.fee = gasFeeLine(q.dryRunRes)]]

\* the catch block of buildTransactionBlock, then `if (result.isError)`
BuildThrew(q, message) ==
    ShowAlert([q EXCEPT !.isError = TRUE, !.hasBytes = FALSE,
                        !.transactionBlockBytes = EmptyBytes,
                        !.errorMessage = message, !.dryRunRes = NoDryRun])

\* the synchronous start of onRpcRequest, up to the first await
Dispatch(q) ==
    CASE q.method = "signPersonalMessage" ->
            IF validate(q.method, ParamsOf(q)) # UNDEFINED
            THEN Throw(q, InvalidParamsError(<<validate(q.method, ParamsOf(q))>>))
            ELSE [q EXCEPT !.pc = "derive"]
      [] q.method = "getAccounts" -> [q EXCEPT !.pc = "derive"]
      [] q.method = "signTransaction" ->
            IF validate(q.method, ParamsOf(q)) # UNDEFINED
            THEN Throw(q, InvalidParamsError(<<validate(q.method, ParamsOf(q))>>))
            ELSE [q EXCEPT !.pc = "derive"]
      [] q.method = "signAndExecuteTransaction" ->
            IF validate(q.method, ParamsOf(q)) # UNDEFINED
            THEN Throw(q, InvalidParamsError(<<validate(q.method, ParamsOf(q))>>))
            ELSE [q EXCEPT !.pc = "getUrl"]
      [] q.method = "admin_getStoredState" ->
            IF ~assertAdminOrigin(q.origin)
            THEN Throw(q, PlainError(<<"Unauthorized: Admin-only method">>))
            ELSE [q EXCEPT !.pc = "adminGet"]
      [] q.method = "admin_setFullnodeUrl" ->
            IF ~assertAdminOrigin(q.origin)
            THEN Throw(q, PlainError(<<"Unauthorized: Admin-only method">>))
            ELSE IF validate(q.method, ParamsOf(q)) # UNDEFINED
            THEN Throw(q, InvalidParamsError(<<validate(q.method, ParamsOf(q))>>))
            ELSE [q EXCEPT !.pc = "setGet"]
      [] OTHER -> Throw(q, InvalidRequestMethodError(q.method))

\* every request a caller can send
AllRequests ==
    {[IdleReq EXCEPT !.method = "signPersonalMessage", !.origin = o, !.message = m] :
        o \in Origins, m \in Messages}
    \cup {[IdleReq EXCEPT !.method = mth, !.origin = o] :
        mth \in {"getAccounts", "admin_getStoredState", "eth_sign", ""}, o \in Origins}
    \cup {[IdleReq EXCEPT !.method = mth, !.origin = o, !.chain = c, !.txSender = s] :
        mth \in {"signTransaction", "signAndExecuteTransaction"},
        o \in Origins, c \in Chains, s \in Senders}
    \cup {[IdleReq EXCEPT !.method = "admin_setFullnodeUrl", !.origin = o,
                          !.network = n, !.url = u] :
        o \in Origins, n \in Networks, u \in Urls}

\* the requests a slot accepts: slot "main" any request, slot "admin" a
\* concurrent admin_setFullnodeUrl from the admin site (the only handler that
\* writes the store; every other handler only reads it, so two of them in
\* flight at once do not affect each other, and the origin is not read again
\* once assertAdminOrigin has returned)
Requests(r) ==
    IF r = "main"
    THEN AllRequests
    ELSE {q \in AllRequests : q.method = "admin_setFullnodeUrl"
                                /\ q.origin = "https://iotasnap.com"}

----------------------------------------------------------------------------
(* Actions *)

Init ==
    /\ stored = NoState
    /\ seed \in Seeds
    /\ req = [r \in Slots |-> IdleReq]
    /\ started = 0

\* no handler has settled without its reply being delivered: the reply leaves
\* in the same turn of the event loop as the handler's last step
NoneSettled == \A s \in Slots : req[s].pc # "done"

\* wallet_invokeSnap delivers a request: onRpcRequest runs to its first await
Start(r) ==
    /\ NoneSettled
    /\ req[r].pc = "idle"
    /\ started < MaxRequests
    /\ \E q \in Requests(r) : req' = [req EXCEPT ![r] = Dispatch(q)]
    /\ started' = started + 1
    /\ UNCHANGED <<stored, seed>>

\* signAndExecuteTransaction: `await getIotaFullnodeUrlForChain(input.chain)` returns
GetUrl(r) ==
    /\ NoneSettled
    /\ req[r].pc = "getUrl"
    /\ LET q == [req[r] EXCEPT !.calls = Append(@, Call("snap_manageState:get", NIL))]
           url == getFullnodeUrlForChain(getStoredState(stored), q.chain)
       IN req' = [req EXCEPT ![r] =
                    IF url = UNDEFINED
                    THEN Throw(q, PlainError(<<"Unsupported chain: ", q.chain>>))
                    ELSE [q EXCEPT !.clientUrl = url, !.pc = "derive"]]
    /\ UNCHANGED <<stored, seed, started>>

\* `await deriveKeypair()` returns or throws
Derive(r) ==
    /\ NoneSettled
    /\ req[r].pc = "derive"
    /\ \E privateKeyBytes \in BOOLEAN :
        LET q == [req[r] EXCEPT !.calls = Append(@, Call("snap_getBip32Entropy", NIL))]
            k == [q EXCEPT !.keypair = seed]
        IN req' = [req EXCEPT ![r] =
            IF ~privateKeyBytes
            THEN Throw(q, PlainError(<<"No private key found.">>))
            ELSE CASE q.method = "signPersonalMessage" ->
                        [k EXCEPT !.pc = "confirm",
                                  !.dialog = [NoDialog EXCEPT
                                        !.type = "confirmation",
                                        !.heading = "Sign Message",
                                        !.origin = q.origin,
                                        !.shown = messageDisplay(q.message)]]
                   [] q.method = "getAccounts" ->
                        [Return(k, "accounts") EXCEPT
                            !.retAccount = serializedWalletAccountForPublicKey(seed)]
                   \* buildTransactionBlock starts: await getFullnodeUrlForChain(chain)
                   [] OTHER -> [k EXCEPT !.pc = "buildGetState", !.txb = q.txSender]]
    /\ UNCHANGED <<stored, seed, started>>

\* a bug of the sender rule: the derived address always replaces the sender
setSenderAlways(txSender, sender) == sender

\* if (!transactionBlock.getData().sender) transactionBlock.setSender(sender):
\* the sender of the transaction after the statement
setSenderIfUnset(txSender, sender) ==
    IF txSender = UNDEFINED \/ txSender = "" THEN sender ELSE txSender

\* buildTransactionBlock: `await getFullnodeUrlForChain(chain)` returns or throws
BuildGetState(r) ==
    /\ NoneSettled
    /\ req[r].pc = "buildGetState"
    /\ LET q == [req[r] EXCEPT !.calls = Append(@, Call("snap_manageState:get", NIL)),
                               !.buildState = stored]
           url == getFullnodeUrlForChain(getStoredState(stored), q.chain)
           sender == toIotaAddress(q.keypair)
           withSender == setSenderIfUnset(q.txb, sender)
       IN req' = [req EXCEPT ![r] =
                    IF url = UNDEFINED
                    THEN BuildThrew(q, "Unsupported chain: <chain>")
                    ELSE [q EXCEPT !.buildUrl = url, !.pc = "build",
                                   !.txb = withSender,
                                   \* signAndExecuteTransaction hands input.transactionBlock
                                   \* itself to the build, signTransaction a copy
                                   !.txSender = IF q.method = "signAndExecuteTransaction"
                                                THEN withSender ELSE @]]
    /\ UNCHANGED <<stored, seed, started>>

\* buildTransactionBlock: `await transactionBlock.build({ client })` returns or throws
Build(r) ==
    /\ NoneSettled
    /\ req[r].pc = "build"
    /\ LET q == [req[r] EXCEPT !.calls = Append(@, Call("build", NIL))]
       IN \/ \E v \in BuildVersions :
                req' = [req EXCEPT ![r] =
                    [q EXCEPT !.pc = "dryRun", !.hasBytes = TRUE,
                              !.transactionBlockBytes = [sender |-> q.txb, ver |-> v]]]
          \* the thrown error may carry an empty message
          \/ \E message \in {"build failed", ""} :
                req' = [req EXCEPT ![r] = BuildThrew(q, message)]
    /\ UNCHANGED <<stored, seed, started>>

\* buildTransactionBlock: `await client.dryRunTransactionBlock(...)` returns or throws,
\* buildTransactionBlock returns and the handler shows its dialog
DryRun(r) ==
    /\ NoneSettled
    /\ req[r].pc = "dryRun"
    /\ LET q == [req[r] EXCEPT !.calls = Append(@, Call("dryRun", NIL))]
       IN \/ \E d \in DryRunResponses :
                req' = [req EXCEPT ![r] =
                    IF d.status # "success"
                    THEN ShowAlert([q EXCEPT !.isError = TRUE, !.dryRunRes = d,
                                             !.errorMessage = Coalesce(d.error, "Unknown error")])
                    ELSE ShowTxConfirmation([q EXCEPT !.isError = FALSE, !.dryRunRes = d])]
          \/ req' = [req EXCEPT ![r] = BuildThrew(q, "dry run request failed")]
    /\ UNCHANGED <<stored, seed, started>>

\* the snap_dialog of type 'alert' returns: throw DryRunFailedError
Alert(r) ==
    /\ NoneSettled
    /\ req[r].pc = "alert"
    /\ \E response \in {"null", "true"} :
        LET q == [req[r] EXCEPT !.calls = Append(@, Call("snap_dialog:alert", response))]
        IN req' = [req EXCEPT ![r] = Throw(q, DryRunFailedError(q.errorMessage))]
    /\ UNCHANGED <<stored, seed, started>>

\* the snap_dialog of type 'confirmation' returns
Confirm(r) ==
    /\ NoneSettled
    /\ req[r].pc = "confirm"
    /\ \E response \in DialogAnswers :
        LET q == [req[r] EXCEPT !.calls = Append(@, Call("snap_dialog:confirmation", response))]
        IN req' = [req EXCEPT ![r] =
            IF isRejected(response)
            THEN Throw(q, UserRejectionError)
            ELSE [q EXCEPT !.pc = afterApproval(q.method)]]
    /\ UNCHANGED <<stored, seed, started>>

\* `await signMessage(keypair, input.message)` or `await keypair.signTransaction(...)` returns
Sign(r) ==
    /\ NoneSettled
    /\ req[r].pc = "sign"
    /\ LET q == [req[r] EXCEPT !.calls = Append(@, Call("sign", NIL))]
       IN req' = [req EXCEPT ![r] =
            IF q.method = "signPersonalMessage"
            THEN [Return(q, "signature") EXCEPT !.signedMessage = q.message]
            \* result.transactionBlockBytes ?? new Uint8Array()
            ELSE [Return(q, "signature") EXCEPT
                    !.signedBytes = IF q.hasBytes THEN q.transactionBlockBytes ELSE EmptyBytes]]
    /\ UNCHANGED <<stored, seed, started>>

\* `await client.signAndExecuteTransaction({ signer: keypair, transaction:
\* input.transactionBlock, ... })` returns or throws.  The SDK is handed the
\* Transaction object, not result.transactionBlockBytes: it serialises the
\* object itself against the fullnode, signs those bytes and submits them.
Execute(r) ==
    /\ NoneSettled
    /\ req[r].pc = "execute"
    /\ LET q == [req[r] EXCEPT !.calls = Append(@, Call("signAndExecuteTransaction", NIL))]
       IN \/ \E v \in BuildVersions :
                req' = [req EXCEPT ![r] =
                    [Return(q, "executed") EXCEPT
                        !.signedBytes = [sender |-> q.txSender, ver |-> v],
                        !.executedBytes = [sender |-> q.txSender, ver |-> v]]]
          \/ req' = [req EXCEPT ![r] = Throw(q, PlainError(<<"execution request failed">>))]
    /\ UNCHANGED <<stored, seed, started>>

\* admin_getStoredState: `await getIotaStoredState()` returns
AdminGet(r) ==
    /\ NoneSettled
    /\ req[r].pc = "adminGet"
    /\ LET q == [req[r] EXCEPT !.calls = Append(@, Call("snap_manageState:get", NIL))]
       IN req' = [req EXCEPT ![r] =
                    [Return(q, "state") EXCEPT !.retState = getStoredState(stored)]]
    /\ UNCHANGED <<stored, seed, started>>

\* admin_setFullnodeUrl: `await getIotaStoredState()` returns, the switch on
\* params.network runs and updateIotaState(state) is called
SetGet(r) ==
    /\ NoneSettled
    /\ req[r].pc = "setGet"
    /\ LET q == [req[r] EXCEPT !.calls = Append(@, Call("snap_manageState:get", NIL))]
       IN req' = [req EXCEPT ![r] =
                    [q EXCEPT !.pc = "setUpdate",
                              !.state = setNetworkUrl(getStoredState(stored), q.network, q.url)]]
    /\ UNCHANGED <<stored, seed, started>>

\* admin_setFullnodeUrl: the host performs the update, `await updateIotaState(state)` returns
SetUpdate(r) ==
    /\ NoneSettled
    /\ req[r].pc = "setUpdate"
    /\ stored' = req[r].state
    /\ LET q == [req[r] EXCEPT !.calls = Append(@, Call("snap_manageState:update", NIL))]
       IN req' = [req EXCEPT ![r] = Return(q, "undefined")]
    /\ UNCHANGED <<seed, started>>

\* the settled promise of onRpcRequest is answered to the caller
Reply(r) ==
    /\ req[r].pc = "done"
    /\ req' = [req EXCEPT ![r] = IdleReq]
    /\ UNCHANGED <<stored, seed, started>>

Next ==
    \E r \in Slots :
        \/ Start(r)
        \/ Reply(r)
        \/ GetUrl(r)
        \/ Derive(r)
        \/ BuildGetState(r)
        \/ Build(r)
        \/ DryRun(r)
        \/ Alert(r)
        \/ Confirm(r)
        \/ Sign(r)
        \/ Execute(r)
        \/ AdminGet(r)
        \/ SetGet(r)
        \/ SetUpdate(r)

Spec == Init /\ [][Next]_vars

\* the steps of a caller that awaits each wallet_invokeSnap before it sends the
\* next: a single handler is in flight at any time
NextSeq ==
    \/ Start("main")
    \/ Reply("main")
    \/ GetUrl("main")
    \/ Derive("main")
    \/ BuildGetState("main")
    \/ Build("main")
    \/ DryRun("main")
    \/ Alert("main")
    \/ Confirm("main")
    \/ Sign("main")
    \/ Execute("main")
    \/ AdminGet("main")
    \/ SetGet("main")
    \/ SetUpdate("main")

SpecSeq == Init /\ [][NextSeq]_vars

TypeOK ==
    /\ stored.present \in BOOLEAN
    /\ seed \in Seeds
    /\ started \in 0..MaxRequests
    /\ \A r \in Slots : req[r].pc \in
        {"idle", "getUrl", "derive", "buildGetState", "build", "dryRun", "alert",
         "confirm", "sign", "execute", "adminGet", "setGet", "setUpdate", "done"}

----------------------------------------------------------------------------
(* Properties *)

InFlight(r) == req[r].pc # "idle"

HasCall(q, name) == \E i \in 1..Len(q.calls) : q.calls[i].call = name

Approved(q) ==
    \E i \in 1..Len(q.calls) :
        q.calls[i].call = "snap_dialog:confirmation" /\ q.calls[i].answer = "true"

SigningMethods == {"signPersonalMessage", "signTransaction", "signAndExecuteTransaction"}
TxMethods == {"signTransaction", "signAndExecuteTransaction"}
AdminOrigins == {"https://iotasnap.com", "http://localhost:8000"}

\* C1: in signPersonalMessage, signTransaction and signAndExecuteTransaction
\* the signing call and the submission to the fullnode are made only after a
\* confirmation dialog of the same request has returned exactly true.
C1_SignOnlyAfterApproval ==
    \A r \in Slots :
        LET q == req[r] IN
        /\ \A i \in 1..Len(q.calls) :
                q.calls[i].call \in {"sign", "signAndExecuteTransaction"}
                => \E j \in 1..(i - 1) :
                        /\ q.calls[j].call = "snap_dialog:confirmation"
                        /\ q.calls[j].answer = "true"
        /\ (q.pc \in {"sign", "execute"} \/ q.ret \in {"signature", "executed"})
                => /\ q.method \in SigningMethods
                   /\ Approved(q)

C1_Witness ==
    \E r \in Slots :
        /\ req[r].pc = "done"
        /\ req[r].method = "signAndExecuteTransaction"
        /\ req[r].ret = "executed"
        /\ HasCall(req[r], "signAndExecuteTransaction")

\* C2: the store changes, and a snap_manageState update is made, only in a
\* step of an admin_setFullnodeUrl request whose origin is
\* 'https://iotasnap.com' or 'http://localhost:8000'.
C2_OnlyAdminSetWrites ==
    [][\A r \in Slots :
        /\ (stored' # stored
            => \E w \in Slots :
                /\ req[w].method = "admin_setFullnodeUrl"
                /\ req[w].origin \in AdminOrigins
                /\ req[w].pc = "setUpdate"
                /\ req'[w].pc = "done")
        /\ (HasCall(req'[r], "snap_manageState:update")
            => /\ req'[r].method = "admin_setFullnodeUrl"
               /\ req'[r].origin \in AdminOrigins)]_vars

C2_Witness ==
    /\ stored # NoState
    /\ \E r \in Slots :
        /\ req[r].pc = "done"
        /\ req[r].method = "admin_setFullnodeUrl"
        /\ req[r].origin = "http://localhost:8000"
        /\ HasCall(req[r], "snap_manageState:update")

\* C3: after approval, signTransaction signs and signAndExecuteTransaction
\* signs and executes exactly the transactionBlockBytes that
\* buildTransactionBlock returned for the dry run shown to the user.
C3_SameBytesAsDryRun ==
    \A r \in Slots :
        LET q == req[r] IN
        (q.pc = "done" /\ q.method \in TxMethods /\ q.ret \in {"signature", "executed"})
        => /\ q.hasBytes
           /\ q.signedBytes = q.transactionBlockBytes
           /\ (q.ret = "executed" => q.executedBytes = q.transactionBlockBytes)

isWellFormedUrl(url) == url = GoodUrl

\* C4: admin_setFullnodeUrl writes the store only after the URL has passed
\* format validation and the user has confirmed the change in a dialog.
C4_SetUrlValidatedAndConfirmed ==
    \A r \in Slots :
        LET q == req[r] IN
        (q.method = "admin_setFullnodeUrl" /\ HasCall(q, "snap_manageState:update"))
        => /\ isWellFormedUrl(q.url)
           /\ Approved(q)

\* the params conform to the schema of the method
Conforms(q) ==
    CASE q.method \in TxMethods -> q.chain \in ValidChains
      [] q.method = "admin_setFullnodeUrl" ->
            q.network \in ValidNetworks /\ isWellFormedUrl(q.url)
      [] OTHER -> TRUE

\* C5: a signPersonalMessage, signTransaction, signAndExecuteTransaction or
\* admin_setFullnodeUrl request (the latter past its origin check) whose
\* params do not conform to the schema is rejected with InvalidParamsError
\* (code -32602) before any key derivation, dialog, fullnode call or state
\* update.
C5_NonConformingRejected ==
    \A r \in Slots :
        LET q == req[r] IN
        (/\ InFlight(r)
         /\ q.method \in SigningMethods \cup {"admin_setFullnodeUrl"}
         /\ (q.method = "admin_setFullnodeUrl" => q.origin \in AdminOrigins)
         /\ ~Conforms(q))
        => /\ q.pc = "done"
           /\ q.error.code = -32602
           /\ q.calls = <<>>

\* C6: when the confirmation dialog of a signing method returns anything but
\* true, the request fails with {code: 4001, message: 'User rejected the
\* request'} and makes no signing call, no execution and no state update.
C6_RejectionFailsWithoutSigning ==
    \A r \in Slots :
        LET q == req[r] IN
        (\E i \in 1..Len(q.calls) :
            q.calls[i].call = "snap_dialog:confirmation" /\ q.calls[i].answer # "true")
        => /\ q.pc = "done"
           /\ q.error = [name |-> "simple", code |-> 4001,
                         message |-> <<"User rejected the request">>]
           /\ q.ret = "none"
           /\ ~HasCall(q, "sign")
           /\ ~HasCall(q, "signAndExecuteTransaction")
           /\ ~HasCall(q, "snap_manageState:update")
           /\ q.signedBytes = EmptyBytes /\ q.signedMessage = <<>>
           /\ q.executedBytes = EmptyBytes

C6_Witness ==
    \E r \in Slots :
        /\ req[r].pc = "done"
        /\ req[r].method = "signAndExecuteTransaction"
        /\ req[r].calls[Len(req[r].calls)] = Call("snap_dialog:confirmation", "null")

\* the steps of a transaction request among its completed calls, in order
RECURSIVE StepsOf(_)
StepsOf(calls) ==
    IF calls = <<>> THEN <<>>
    ELSE LET c == Head(calls).call
             step == CASE c = "snap_getBip32Entropy" -> <<"derive key">>
                       [] c = "build" -> <<"build transaction">>
                       [] c = "dryRun" -> <<"dry-run">>
                       [] c = "snap_dialog:confirmation" -> <<"confirmation dialog">>
                       [] c = "sign" -> <<"sign">>
                       [] c = "signAndExecuteTransaction" -> <<"sign", "broadcast">>
                       [] OTHER -> <<>>
         IN step \o StepsOf(Tail(calls))

IsPrefix(s, t) == Len(s) <= Len(t) /\ \A i \in 1..Len(s) : s[i] = t[i]

StepOrder(method) ==
    IF method = "signAndExecuteTransaction"
    THEN <<"derive key", "build transaction", "dry-run", "confirmation dialog", "sign", "broadcast">>
    ELSE <<"derive key", "build transaction", "dry-run", "confirmation dialog", "sign">>

NetworkOfChain(chain) ==
    CASE chain = "iota:mainnet" -> "mainnet"
      [] chain = "iota:testnet" -> "testnet"
      [] chain = "iota:devnet" -> "devnet"
      [] chain = "iota:localnet" -> "localnet"

OverrideOf(hostState, network) ==
    CASE network = "mainnet" -> hostState.mainnetUrl
      [] network = "testnet" -> hostState.testnetUrl
      [] network = "devnet" -> hostState.devnetUrl
      [] network = "localnet" -> hostState.localnetUrl

DefaultOf(network) ==
    CASE network = "mainnet" -> DEFAULT_MAINNET_URL
      [] network = "testnet" -> DEFAULT_TESTNET_URL
      [] network = "devnet" -> DEFAULT_DEVNET_URL
      [] network = "localnet" -> DEFAULT_LOCALNET_URL

\* the endpoint a build has to use while the host holds hostState
EffectiveEndpoint(hostState, chain) ==
    IF hostState.present /\ OverrideOf(hostState, NetworkOfChain(chain)) # UNDEFINED
    THEN OverrideOf(hostState, NetworkOfChain(chain))
    ELSE DefaultOf(NetworkOfChain(chain))

\* C8: every buildTransactionBlock call resolves its endpoint from the store
\* as it is at the time of the call: for the four iota chains the stored
\* override of that network if one is set, the SDK default otherwise (also
\* when the host holds no state); an override that admin_setFullnodeUrl wrote
\* is used by every build that reads the store while it is there.
C8_BuildUsesStoredEndpoint ==
    [][\A r \in Slots :
        (req[r].pc = "buildGetState" /\ req'[r].pc # "buildGetState"
         /\ req[r].chain \in ValidChains)
        => /\ req'[r].pc = "build"
           /\ req'[r].buildUrl = EffectiveEndpoint(stored, req[r].chain)]_vars

C8_Witness ==
    \E r \in Slots :
        /\ req[r].pc = "build"
        /\ req[r].chain = "iota:testnet"
        /\ stored.testnetUrl = GoodUrl
        /\ req[r].buildState = stored
        /\ req[r].buildUrl = GoodUrl

\* the fee line the three cases call for
ThreeCaseFeeLine(dryRunRes) ==
    IF ~dryRunRes.present \/ ~dryRunRes.gasUsed.present
    THEN [text |-> "Unable to estimate gas fees", amount |-> 0]
    ELSE LET total == dryRunRes.gasUsed.computationCost + dryRunRes.gasUsed.storageCost
                      - dryRunRes.gasUsed.storageRebate
         IN IF total = 0
            THEN [text |-> "0 IOTA (free transaction)", amount |-> 0]
            ELSE [text |-> "<amount> IOTA", amount |-> total]

\* C9: the fee line of the transaction confirmation dialog shows
\* '0 IOTA (free transaction)' only for a fee that is truly zero, 'Unable to
\* estimate gas fees' when there is no dry-run result or no gasUsed in it,
\* and '<amount> IOTA' otherwise.
C9_FeeLineThreeCases ==
    \A r \in Slots :
        LET q == req[r] IN
        (q.method \in TxMethods /\ q.dialog.type = "confirmation")
        => q.dialog.fee = ThreeCaseFeeLine(q.dryRunRes)

\* Unicode general category Cc
IsCc(c) == c \in 0..31 \/ c \in 127..159

\* Unicode general category Cf (the code points below U+FFFF)
IsCf(c) ==
    \/ c \in {173, 1564, 1757, 1807, 2274, 6158, 65279}
    \/ c \in 1536..1541
    \/ c \in 2192..2193
    \/ c \in 8203..8207
    \/ c \in 8234..8238
    \/ c \in 8288..8292
    \/ c \in 8294..8303
    \/ c \in 65529..65531

\* C10: signPersonalMessage shows the message as decoded text only when it
\* contains no control (Cc) and no format (Cf) character; otherwise the
\* dialog shows the base64 encoding with the '(base64 encoded)' notice.
C10_ControlCharsShownAsBase64 ==
    \A r \in Slots :
        LET q == req[r] IN
        (q.method = "signPersonalMessage" /\ q.dialog.type = "confirmation")
        => IF \E i \in 1..Len(q.message) : IsCc(q.message[i]) \/ IsCf(q.message[i])
           THEN q.dialog.shown.encoding = "base64"
                /\ q.dialog.shown.notice = "(base64 encoded)"
           ELSE q.dialog.shown.encoding = "text" /\ q.dialog.shown.notice = ""

NoHostRequest(q) == q.calls = <<>> /\ q.dialog = NoDialog /\ q.ret = "none"

\* C11 as stated: for every method outside the six known ones onRpcRequest
\* throws {code: -32601, message: 'Method not found: <method>'} and makes no
\* host request.
C11_UnknownMethodRejected ==
    \A r \in Slots :
        LET q == req[r] IN
        (InFlight(r) /\ q.method \notin KnownMethods)
        => /\ q.pc = "done"
           /\ q.error = [name |-> "simple", code |-> -32601,
                         message |-> <<"Method not found: ", q.method>>]
           /\ NoHostRequest(q)

\* C11 as amended: for every method outside the six known ones onRpcRequest
\* throws code -32601 and makes no host request; the message is
\* 'Method not found: <method>' for a non-empty method name and
\* 'Method not found' for the empty one.
C11_UnknownMethodRejectedNonEmpty ==
    \A r \in Slots :
        LET q == req[r] IN
        (InFlight(r) /\ q.method \notin KnownMethods)
        => /\ q.pc = "done"
           /\ q.error.name = "simple"
           /\ q.error.code = -32601
           /\ (q.method # ""
                => q.error.message = <<"Method not found: ", q.method>>)
           /\ (q.method = "" => q.error.message = <<"Method not found">>)
           /\ NoHostRequest(q)

C11_Witness ==
    \E r \in Slots :
        /\ req[r].pc = "done"
        /\ req[r].method = "eth_sign"
        /\ req[r].error.code = -32601

\* the account of a seed: one address and one public key per seed
AccountOfSeed ==
    [s \in Seeds |->
        [address |-> IF s = "seedA" THEN "0xaddrA" ELSE "0xaddrB",
         publicKey |-> IF s = "seedA" THEN "pubA" ELSE "pubB",
         chains |-> <<"iota:mainnet", "iota:testnet", "iota:devnet", "iota:localnet">>,
         features |-> <<"iota:signAndExecuteTransactionBlock", "iota:signTransactionBlock",
                        "iota:signPersonalMessage", "iota:signMessage">>]]

\* C12: the result of getAccounts is a function of the host's entropy alone,
\* whatever the origin, the store and the requests handled before: one
\* account with the four iota chains and the four sign features; getAccounts
\* opens no dialog.
C12_GetAccountsDeterministic ==
    \A r \in Slots :
        LET q == req[r] IN
        (q.method = "getAccounts" /\ InFlight(r))
        => /\ q.dialog = NoDialog
           /\ \A i \in 1..Len(q.calls) : q.calls[i].call = "snap_getBip32Entropy"
           /\ (q.pc = "done" /\ q.error = NoError)
                => /\ q.ret = "accounts"
                   /\ q.retAccount = AccountOfSeed[seed]
                   /\ Len(q.retAccount.chains) = 4
                   /\ Len(q.retAccount.features) = 4

C12_Witness ==
    \E r \in Slots :
        /\ req[r].method = "getAccounts"
        /\ req[r].origin = "https://dapp.example"
        /\ req[r].pc = "done"
        /\ req[r].ret = "accounts"
        /\ stored.mainnetUrl = BadUrl

AlertCalls(q) == {i \in 1..Len(q.calls) : q.calls[i].call = "snap_dialog:alert"}

\* C13: when buildTransactionBlock returns isError = true, the request shows
\* one alert dialog ('Dry run failed with the following error: **<msg>**'
\* when there is an error message, 'Dry run failed.' otherwise) and then
\* fails with DryRunFailedError (code 4900) carrying the error message; no
\* confirmation dialog, signing or broadcast happens, whatever the alert
\* returns.
C13_DryRunFailureAlerts ==
    \A r \in Slots :
        LET q == req[r] IN
        (q.method \in TxMethods /\ q.isError)
        => /\ q.pc \in {"alert", "done"}
           /\ q.dialog.type = "alert"
           /\ q.dialog.resultText =
                IF q.errorMessage \in {UNDEFINED, ""}
                THEN <<"Dry run failed.">>
                ELSE <<"Dry run failed with the following error: **", q.errorMessage, "**">>
           /\ ~HasCall(q, "snap_dialog:confirmation")
           /\ ~HasCall(q, "sign")
           /\ ~HasCall(q, "signAndExecuteTransaction")
           /\ q.ret = "none"
           /\ (q.pc = "alert" => AlertCalls(q) = {})
           /\ (q.pc = "done"
                => /\ Cardinality(AlertCalls(q)) = 1
                   /\ q.calls[Len(q.calls)].call = "snap_dialog:alert"
                   /\ q.error.name = "simple"
                   /\ q.error.code = 4900
                   /\ q.error.message = <<q.errorMessage>>)

C13_Witness ==
    \E r \in Slots :
        /\ req[r].method = "signTransaction"
        /\ req[r].isError
        /\ req[r].dryRunRes.status = "failure"
        /\ req[r].errorMessage = "InsufficientGas"
        /\ req[r].pc = "done"
        /\ req[r].calls[Len(req[r].calls)] = Call("snap_dialog:alert", "true")

\* C14: the admin methods check the origin first: from another origin than
\* the two admin origins they throw Error('Unauthorized: Admin-only method')
\* and make no host call, return nothing of the state; from an admin origin
\* admin_getStoredState returns the stored state ({} when there is none)
\* and only reads the store.
C14_AdminOriginGate ==
    \A r \in Slots :
        LET q == req[r] IN
        /\ (q.method \in AdminMethods /\ InFlight(r) /\ q.origin \notin AdminOrigins)
            => /\ q.pc = "done"
               /\ q.error = PlainError(<<"Unauthorized: Admin-only method">>)
               /\ q.calls = <<>>
               /\ q.ret = "none"
               /\ q.retState = NoState
               /\ q.state = NoState
        /\ (q.method = "admin_getStoredState" /\ q.origin \in AdminOrigins /\ q.pc = "done")
            => /\ q.error = NoError
               /\ q.ret = "state"
               /\ q.retState = (IF stored.present THEN stored ELSE EmptyState)
               /\ q.calls = <<Call("snap_manageState:get", NIL)>>

C14_Witness ==
    \E r \in Slots :
        /\ req[r].method = "admin_getStoredState"
        /\ req[r].origin = "https://dapp.example"
        /\ req[r].pc = "done"
        /\ req[r].error.message = <<"Unauthorized: Admin-only method">>
        /\ stored.present
        /\ stored.testnetUrl = GoodUrl

\* C15: the update of an admin_setFullnodeUrl(network, url) call changes no
\* other override of the store than the one of the named network: the
\* overrides of the other networks are after the call's write what they were
\* before it (all four for a network outside the four names).
C15_SetChangesOnlyNamedNetwork ==
    [][\A r \in Slots :
        (req[r].method = "admin_setFullnodeUrl"
         /\ req[r].pc = "setUpdate" /\ req'[r].pc = "done")
        => \A n \in ValidNetworks :
              n # req[r].network => OverrideOf(stored', n) = OverrideOf(stored, n)]_vars

\* 'iota:' + network
ChainOfNetwork(network) ==
    CASE network = "mainnet" -> "iota:mainnet"
      [] network = "testnet" -> "iota:testnet"
      [] network = "devnet" -> "iota:devnet"
      [] network = "localnet" -> "iota:localnet"

SetCompletes(r) ==
    /\ req[r].method = "admin_setFullnodeUrl"
    /\ req[r].pc = "setUpdate"
    /\ req'[r].pc = "done"

\* C16: with one handler in flight at a time, when admin_setFullnodeUrl(n, u)
\* completes the store holds u for n (whatever it held before: the last write
\* wins) and getFullnodeUrlForChain('iota:' + n) resolves to u; a call that
\* repeats the stored value leaves the store as it is; no other step than
\* the completion of an admin_setFullnodeUrl changes the store, and
\* admin_getStoredState returns the store as it is, so u is read back until
\* the next admin_setFullnodeUrl.
C16_SetThenReadRoundTrip ==
    [][\A r \in Slots :
        /\ (SetCompletes(r) /\ req[r].network \in ValidNetworks)
            => /\ req'[r].error = NoError
               /\ stored'.present
               /\ OverrideOf(stored', req[r].network) = req[r].url
               /\ getFullnodeUrlForChain(getStoredState(stored'),
                                         ChainOfNetwork(req[r].network)) = req[r].url
               /\ \A n \in ValidNetworks :
                     n # req[r].network => OverrideOf(stored', n) = OverrideOf(stored, n)
               /\ (stored.present /\ OverrideOf(stored, req[r].network) = req[r].url
                     => stored' = stored)
        /\ ((\A s \in Slots : ~SetCompletes(s)) => stored' = stored)
        /\ (req[r].pc = "adminGet" /\ req'[r].pc = "done")
            => /\ req'[r].ret = "state"
               /\ req'[r].retState = getStoredState(stored)
               /\ \A n \in ValidNetworks :
                     OverrideOf(req'[r].retState, n) = OverrideOf(stored', n)]_vars

\* the second of two requests, admin_getStoredState, has read back the
\* override the first one set
C16_Witness ==
    /\ started = 2
    /\ req["admin"].pc = "idle"
    /\ req["main"].method = "admin_getStoredState"
    /\ req["main"].pc = "done"
    /\ req["main"].retState.present
    /\ req["main"].retState.testnetUrl = GoodUrl
    /\ req["main"].retState.mainnetUrl = UNDEFINED

\* C17: the sender of the built transaction is the derived account address
\* only when the requested transaction has no sender; a sender the requester
\* set is kept in the transaction that is built, dry-run, signed and
\* submitted.
C17_RequestedSenderKept ==
    \A r \in Slots :
        LET q == req[r] IN
        (q.method \in TxMethods /\ InFlight(r))
        => /\ q.txSender \in {UNDEFINED, "0xrequester", toIotaAddress(seed)}
           /\ (q.txSender = "0xrequester" => q.txb \in {NIL, "0xrequester"})
           /\ (q.pc \in {"build", "dryRun"} => q.txb # UNDEFINED)
           /\ (q.hasBytes
                => /\ q.transactionBlockBytes.sender = q.txb
                   /\ q.transactionBlockBytes.sender =
                        IF q.txSender = UNDEFINED THEN toIotaAddress(seed) ELSE q.txSender)
           /\ (q.signedBytes # EmptyBytes
                => /\ q.hasBytes
                   /\ q.signedBytes.sender = q.transactionBlockBytes.sender)
           /\ (q.executedBytes # EmptyBytes => q.executedBytes.sender = q.signedBytes.sender)

C17_Witness ==
    \E r \in Slots :
        /\ req[r].method = "signTransaction"
        /\ req[r].txSender = "0xrequester"
        /\ req[r].pc = "done"
        /\ req[r].ret = "signature"
        /\ req[r].signedBytes.sender = "0xrequester"
        /\ toIotaAddress(req[r].keypair) # "0xrequester"

====
